---------------------------- MODULE Spec2Model ----------------------------
(***************************************************************************)
(* events2graph: the selection / metric / edge-construction pipeline and   *)
(* the persistence contract of the Dataset Driver                          *)
(* (edge_index_generator.main).                                            *)
(*                                                                         *)
(* Arrays.  A coordinate array of shape [N, D] is a record                 *)
(*   [d |-> D, rows |-> <<p_0, ..., p_(N-1)>>]  with p_i a D-tuple of      *)
(* integers; numpy keeps D when N = 0, and so does the record.  Node       *)
(* indices are 0-based as in the code: node i is rows[i + 1].              *)
(* An edge index of shape [2, M] is the sequence of its M columns, each a  *)
(* pair <<source, target>>.                                                *)
(* A call that can raise returns [err |-> name, edges |-> ...]; err is     *)
(* "none" when the call returns normally.                                  *)
(***************************************************************************)
EXTENDS Integers, Sequences, FiniteSets, TLC

VARIABLES
    e_in,       \* edge constructors: the call under study (or NoCall)
    e_out,      \* edge constructors: what the call returned (or Pending)
    f_in,       \* a call of one function of the pipeline (or NoCall)
    f_out,      \* what that call returned (or Pending)
    data_file,  \* the input store: event id -> event group
    target,     \* the output store (args.output_file), or with combine_files
                \* what the input store holds besides its event groups
    run,        \* number of Driver runs started
    args,       \* the configuration of the current run
    edge_builder, \* main's EdgeBuilder object (NoBuilder until constructed)
    pc,         \* where main stands
    event_names, \* main's sorted list of event names (<<>> until line 167)
    event_idx,  \* position in event_names
    last_mask,  \* SelectionCompose.last_mask
    loc,        \* main's locals between compute and persist
    error,      \* the exception that ended the run, or "none"
    pre,        \* history: the output store when the run started
    outcome,    \* history: what the run did with each event, the mask and
                \* the edge index it computed for it
    par         \* process_in_parallel: its arguments, locals, the shared
                \* configuration dict and the worker tasks (or NoPar)

edge_vars == <<e_in, e_out>>
call_vars == <<f_in, f_out>>
driver_vars == <<data_file, target, run, args, edge_builder, pc, event_names, event_idx, last_mask, loc, error,
                 pre, outcome>>

-----------------------------------------------------------------------------
(* Bounds of the model *)

MaxPts == 4         \* most points handed to an edge constructor
MaxK == 2           \* largest KNN parameter k
MaxR == 1           \* largest radius parameter r
NumEvents == 2      \* events event_0 .. event_(NumEvents-1) of the input store
MaxNodes == 2       \* most nodes of an input event; node i has time i
MaxRuns == 2        \* Driver runs on one output store
MaxCurvePts == 5    \* most points in general position handed to delaunay
Threshold == 2      \* the bound of the threshold cuts; signals lie around it
MaxEntries == 3     \* most entries of the tree read by process_in_parallel
MaxWorkers == 3     \* most worker threads of process_in_parallel

-----------------------------------------------------------------------------
(* Generic helpers on sequences and sets *)

Range(s) == {s[i] : i \in DOMAIN s}

Nodes(n) == 0 .. (n - 1)

\* all rankings of the nodes 0 .. n-1: the bijections onto 1 .. n
Rankings(n) ==
    {f \in [Nodes(n) -> 1 .. n] : \A i, j \in Nodes(n) : i # j => f[i] # f[j]}

\* lexicographic order on pairs (the column order numpy.unique(axis=1) sorts by)
PairLeq(p, q) == p[1] < q[1] \/ (p[1] = q[1] /\ p[2] <= q[2])

RECURSIVE SortPairs(_)
SortPairs(S) ==
    IF S = {} THEN <<>>
    ELSE LET m == CHOOSE p \in S : \A q \in S : PairLeq(p, q)
         IN  <<m>> \o SortPairs(S \ {m})

RECURSIVE Flatten(_)
Flatten(ss) == IF ss = <<>> THEN <<>> ELSE Head(ss) \o Flatten(Tail(ss))

Prefix(s, n) == SubSeq(s, 1, IF n < Len(s) THEN n ELSE Len(s))

Ok(edges) == [err |-> "none", edges |-> edges]
Raise(name) == [err |-> name, edges |-> <<>>]

\* np.array([[], []], dtype=np.int64): the explicit empty edge index
EmptyEdgeIndex == <<>>

-----------------------------------------------------------------------------
(* Geometry *)

NumRows(coords) == Len(coords.rows)

RECURSIVE SumSq(_, _, _)
SumSq(p, q, i) ==
    IF i = 0 THEN 0 ELSE (p[i] - q[i]) * (p[i] - q[i]) + SumSq(p, q, i - 1)

\* squared Euclidean distance between nodes a and b (same order as the distance)
Dist2(coords, a, b) == SumSq(coords.rows[a + 1], coords.rows[b + 1], coords.d)

Det3(u, v, w) ==
      u[1] * (v[2] * w[3] - v[3] * w[2])
    - u[2] * (v[1] * w[3] - v[3] * w[1])
    + u[3] * (v[1] * w[2] - v[2] * w[1])

Diff3(p, q) == <<p[1] - q[1], p[2] - q[2], p[3] - q[3]>>

\* the four nodes of T span no volume (coincident, collinear or coplanar)
Flat(coords, T) ==
    LET a == CHOOSE x \in T : TRUE
        b == CHOOSE x \in T \ {a} : TRUE
        c == CHOOSE x \in T \ {a, b} : TRUE
        e == CHOOSE x \in T \ {a, b, c} : TRUE
        P(x) == coords.rows[x + 1]
    IN  Det3(Diff3(P(b), P(a)), Diff3(P(c), P(a)), Diff3(P(e), P(a))) = 0

Tetrahedra(coords) ==
    {T \in SUBSET Nodes(NumRows(coords)) : Cardinality(T) = 4 /\ ~Flat(coords, T)}


-----------------------------------------------------------------------------
(* scipy.spatial.cKDTree.query and torch_geometric knn_graph                *)
(*                                                                         *)
(* A k-neighbour search orders the points by distance to the query point.  *)
(* The order among equidistant points is the library's: it is modelled by  *)
(* `tie`, an arbitrary priority order over the nodes chosen by the caller  *)
(* of these operators (every order is possible): tie[a] is the rank of     *)
(* node a among equidistant nodes.                                         *)

\* the nodes in the order of their distance to node q, ties in the order of tie
\* (tie[a] is the priority of node a)
SortNear(coords, q, tie) ==
    LET n == NumRows(coords)
        keyed == SortPairs({<<Dist2(coords, q, a) * (n + 1) + tie[a], a>> : a \in Nodes(n)})
    IN  [s \in 1 .. n |-> keyed[s][2]]

\* tree.query(coords[q], k=kk): the kk nearest tree points, nearest first; a
\* missing neighbour is reported with index tree.n
cKDTree_query(coords, q, kk, tie) ==
    LET n == NumRows(coords)
        near == SortNear(coords, q, tie)
    IN  [s \in 1 .. kk |-> IF s <= n THEN near[s] ELSE n]

\* the directed edge index of knn_scipy: row = repeat(arange(N), k),
\* col = indices[:, 1:].flatten()
knn_scipy_directed(coords, k, tie) ==
    LET n == NumRows(coords)
        out(i) == LET indices == cKDTree_query(coords, i, k + 1, tie)
                  IN  [s \in 1 .. k |-> <<i, indices[s + 1]>>]
    IN  Flatten([i \in 1 .. n |-> out(i - 1)])

Reversed(edges) == [c \in DOMAIN edges |-> <<edges[c][2], edges[c][1]>>]

\* np.unique(edge_index, axis=1): the distinct columns, sorted
np_unique(edges) == SortPairs(Range(edges))

\* knn_scipy.build_edges.  With no point, distances[:, k] is empty and np.max
\* raises ValueError.
knn_scipy_build_edges(coords, k, tie) ==
    IF NumRows(coords) = 0 THEN Raise("ValueError")
    ELSE LET directed_edge_index == knn_scipy_directed(coords, k, tie)
             reversed_edge_index == Reversed(directed_edge_index)
         IN  Ok(np_unique(directed_edge_index \o reversed_edge_index))

\* pyg_nn.knn_graph(x, k, loop, flow='source_to_target'): a search for
\* k (+1 without loops) neighbours of every centre, columns <<neighbour, centre>>,
\* the columns with neighbour = centre masked out when loop is False
knn_graph(coords, k, loop, tie) ==
    LET n == NumRows(coords)
        kk == IF loop THEN k ELSE k + 1
        cols(c) == LET near == Prefix(SortNear(coords, c, tie), kk)
                   IN  [s \in 1 .. Len(near) |-> <<near[s], c>>]
    IN  SelectSeq(Flatten([i \in 1 .. n |-> cols(i - 1)]),
                  LAMBDA e : loop \/ e[1] # e[2])

\* knn_pyg.build_edges
knn_pyg_build_edges(coords, k, tie) == Ok(knn_graph(coords, k, FALSE, tie))

-----------------------------------------------------------------------------
(* scipy.spatial.Delaunay and delaunay.build_edges *)

\* what Delaunay(coords) can give: Qhull fails when the points span no volume;
\* otherwise tri.simplices is a non-empty set of tetrahedra over the points
Delaunay(coords) ==
    IF Tetrahedra(coords) = {} THEN {[err |-> "QhullError", simplices |-> {}]}
    ELSE {[err |-> "none", simplices |-> sx] : sx \in (SUBSET Tetrahedra(coords)) \ {{}}}

\* the edges of a tetrahedron without the min/max ordering of the pair
SimplexEdgesUnsorted(T) == {e \in T \X T : e[1] # e[2]}

\* the six edges of a tetrahedron, each as tuple(sorted((i, j)))
SimplexEdges(T) == {e \in T \X T : e[1] < e[2]}

\* delaunay.build_edges without the try/except around Delaunay(coords)
delaunay_build_edges_uncaught(coords, tri) ==
    IF NumRows(coords) < 4 THEN Ok(EmptyEdgeIndex)
    ELSE IF coords.d # 3 THEN Raise("ValueError")
    ELSE IF tri.err # "none" THEN Raise(tri.err)
    ELSE LET unique_edges_array == SortPairs(UNION {SimplexEdges(T) : T \in tri.simplices})
         IN  Ok(unique_edges_array \o Reversed(unique_edges_array))

\* delaunay.build_edges; tri is what Delaunay(coords) gives when it is called
delaunay_build_edges(coords, tri) ==
    IF NumRows(coords) < 4 THEN Ok(EmptyEdgeIndex)
    ELSE IF coords.d # 3 THEN Raise("ValueError")
    ELSE IF tri.err # "none" THEN Ok(EmptyEdgeIndex)
    ELSE LET edge_set == UNION {SimplexEdges(T) : T \in tri.simplices}
             unique_edges_array == SortPairs(edge_set)
         IN  IF edge_set = {} THEN Ok(EmptyEdgeIndex)
             ELSE Ok(unique_edges_array \o Reversed(unique_edges_array))

-----------------------------------------------------------------------------
(* radius.build_edges: every directed pair of distinct nodes at distance <= r *)

radius_build_edges(coords, r) ==
    LET n == NumRows(coords)
    IN  Ok(SortPairs({e \in Nodes(n) \X Nodes(n) :
                        e[1] # e[2] /\ Dist2(coords, e[1], e[2]) <= r * r}))

-----------------------------------------------------------------------------
(* Metric transforms *)

SPEED_OF_LIGHT_IN_WATER_20degree_cm_per_ns == 22
WCSIM_TRIGGER_TIME_OFFSET == 950

OkCoords(coords) == [err |-> "none", coords |-> coords]
RaiseCoords(name) == [err |-> name, coords |-> [d |-> 0, rows |-> <<>>]]

\* metrics.spacetime.process_coords_spacetime with use_std_scaler = False
process_coords_spacetime(coords, spatial_weight, temporal_weight) ==
    IF coords.d # 4 THEN RaiseCoords("ValueError")
    ELSE LET scaled_t(p) ==
                 (p[4] - WCSIM_TRIGGER_TIME_OFFSET)
                     * SPEED_OF_LIGHT_IN_WATER_20degree_cm_per_ns
             row(p) == [c \in 1 .. 3 |->
                          spatial_weight * p[c] + temporal_weight * scaled_t(p)]
         IN  OkCoords([d |-> 3,
                       rows |-> [i \in DOMAIN coords.rows |-> row(coords.rows[i])]])

RECURSIVE ISqrtIn(_, _, _)
ISqrtIn(v, lo, hi) ==
    IF lo = hi THEN lo
    ELSE LET mid == (lo + hi + 1) \div 2
         IN  IF mid * mid <= v THEN ISqrtIn(v, mid, hi) ELSE ISqrtIn(v, lo, mid - 1)

\* floor of the square root
ISqrt(v) == ISqrtIn(v, 0, v)

RECURSIVE WeightedSumSq(_, _, _, _)
WeightedSumSq(p, q, w, i) ==
    IF i = 0 THEN 0
    ELSE ((p[i] - q[i]) * w[i]) * ((p[i] - q[i]) * w[i]) + WeightedSumSq(p, q, w, i - 1)

\* metrics.weighted_euclidian.process_coords_weighted_euclidean: the [N, N]
\* matrix of pairwise weighted distances (kept to two decimals); weights is
\* <<>> for None
process_coords_weighted_euclidean(coords, weights) ==
    LET w == IF weights = <<>> THEN [c \in 1 .. coords.d |-> 1] ELSE weights
        n == NumRows(coords)
    IN  IF Len(w) # coords.d THEN RaiseCoords("ValueError")
        ELSE OkCoords([d |-> n,
                       rows |-> [i \in 1 .. n |-> [j \in 1 .. n |->
                           ISqrt(10000 * WeightedSumSq(coords.rows[i], coords.rows[j],
                                                       w, coords.d))]]])

-----------------------------------------------------------------------------
(* utils.edge_builder.EdgeBuilder *)

GRAPH_BUILDERS == {"knn_scipy", "delaunay", "radius", "knn_pyg"}
METRIC_REGISTRY == {"spacetime", "weighted_euclidean"}
None == "None"

\* lines 73-78 of compute_edge_index: the metric transformation
ApplyMetric(self, raw_edge_coords) ==
    IF self.metric = "spacetime"
        THEN process_coords_spacetime(raw_edge_coords,
                 self.metric_params.spatial_weight, self.metric_params.temporal_weight)
    ELSE IF self.metric = "weighted_euclidean"
        THEN process_coords_weighted_euclidean(raw_edge_coords, self.metric_params.weights)
    ELSE OkCoords(raw_edge_coords)

\* the library outcomes open to the graph builder on edge_coords: a tie order
\* of the neighbour searches, and what Delaunay gives when it is reached
LibChoices(self, edge_coords) ==
    LET n == NumRows(edge_coords)
    IN  IF self.algorithm \in {"knn_scipy", "knn_pyg"}
            THEN {[tie |-> t, tri |-> [err |-> "none", simplices |-> {}]] :
                     t \in Rankings(n)}
        ELSE IF self.algorithm = "delaunay" /\ n >= 4 /\ edge_coords.d = 3
            THEN {[tie |-> <<>>, tri |-> t] : t \in Delaunay(edge_coords)}
        ELSE {[tie |-> <<>>, tri |-> [err |-> "none", simplices |-> {}]]}

\* the unit of the entries of edge_coords: the distance matrix is kept in
\* hundredths, so a radius is compared in hundredths too
MetricScale(self) == IF self.metric = "weighted_euclidean" THEN 100 ELSE 1

\* line 81 of compute_edge_index: self.graph_builder(edge_coords, **algorithm_params)
graph_builder(self, edge_coords, lib) ==
    IF self.algorithm = "knn_scipy"
        THEN knn_scipy_build_edges(edge_coords, self.algorithm_params.k, lib.tie)
    ELSE IF self.algorithm = "knn_pyg"
        THEN knn_pyg_build_edges(edge_coords, self.algorithm_params.k, lib.tie)
    ELSE IF self.algorithm = "radius"
        THEN radius_build_edges(edge_coords, self.algorithm_params.r * MetricScale(self))
    ELSE delaunay_build_edges(edge_coords, lib.tri)

\* EdgeBuilder.compute_edge_index: every result the call can give on these
\* coordinates (an exception of the metric or of the builder propagates)
compute_edge_index(self, raw_edge_coords) ==
    LET m == ApplyMetric(self, raw_edge_coords)
    IN  IF m.err # "none" THEN {Raise(m.err)}
        ELSE {graph_builder(self, m.coords, lib) : lib \in LibChoices(self, m.coords)}

-----------------------------------------------------------------------------
(* Input store: an event group owns named feature arrays of one length.    *)
(* An event group is [arr |-> [name -> array], landau_converges |-> b];    *)
(* landau_converges says whether scipy's curve_fit of the Landau density   *)
(* to the histogram of this event's time array succeeds (a property of the *)
(* data, the same at every call).                                          *)

Has(event_group, key) == key \in DOMAIN event_group.arr

Unset == [set |-> FALSE, v |-> 0]
Bound(v) == [set |-> TRUE, v |-> v]

\* a cut dictionary {'min': .., 'max': ..} with either key optional, or None
NoCut == [given |-> FALSE, min |-> Unset, max |-> Unset]
Cut(min, max) == [given |-> TRUE, min |-> min, max |-> max]

\* NodeSelection.check_data_requirements
NodeSelection_check_data_requirements(self, event_group) ==
    LET has_time == \E key \in {"pmt_time", "time"} : Has(event_group, key)
        has_charge == \E key \in {"pmt_charge", "charge"} : Has(event_group, key)
    IN  has_time /\ has_charge

OkMask(mask) == [err |-> "none", mask |-> mask]
RaiseMask(name) == [err |-> name, mask |-> <<>>]

\* a cut that compares with > and <
InCutOpen(cut, v) ==
    cut.given =>
        /\ cut.min.set => v > cut.min.v
        /\ cut.max.set => v < cut.max.v

\* the `mask &= (signal >= min)`, `mask &= (signal <= max)` lines of one cut
InCut(cut, v) ==
    cut.given =>
        /\ cut.min.set => v >= cut.min.v
        /\ cut.max.set => v <= cut.max.v

\* NodeSelection.get_mask; event_group[key] raises KeyError on a missing key
NodeSelection_get_mask(self, event_group) ==
    LET time_key == IF Has(event_group, "pmt_time") THEN "pmt_time" ELSE "time"
        charge_key == IF Has(event_group, "pmt_charge") THEN "pmt_charge" ELSE "charge"
    IN  IF ~Has(event_group, time_key) \/ ~Has(event_group, charge_key)
            THEN RaiseMask("KeyError")
        ELSE LET time == event_group.arr[time_key]
                 charge == event_group.arr[charge_key]
             IN  OkMask([i \in 1 .. Len(time) |->
                            InCut(self.time_cut, time[i]) /\ InCut(self.charge_cut, charge[i])])

\* PercentileTimeSelection.check_data_requirements
PercentileTimeSelection_check_data_requirements(self, event_group) ==
    \E key \in {"pmt_time", "time"} : Has(event_group, key)

\* the values of a, ascending
RECURSIVE SortInts(_)
SortInts(a) ==
    IF a = <<>> THEN <<>>
    ELSE LET i == CHOOSE x \in DOMAIN a : \A y \in DOMAIN a : a[x] <= a[y]
         IN  <<a[i]>> \o SortInts([j \in 1 .. Len(a) - 1 |-> IF j < i THEN a[j] ELSE a[j + 1]])

\* 100 * np.percentile(a, q) for a non-empty integer array a and an integer
\* q in 0 .. 100 (linear interpolation between the two closest ranks)
Percentile100(a, q) ==
    LET s == SortInts(a)
        n == Len(s)
        lo == (q * (n - 1)) \div 100
        hi == IF lo + 1 < n THEN lo + 1 ELSE lo
    IN  100 * s[lo + 1] + (q * (n - 1) - 100 * lo) * (s[hi + 1] - s[lo + 1])

\* the percentiles of 10000 unseeded draws from the fitted density
\* (moyal.rvs): some pair lower <= upper, different from run to run
SampledCuts ==
    {c \in (0 .. MaxNodes + 1) \X (0 .. MaxNodes + 1) : c[1] <= c[2]}

\* the pair (None, None)
NoCuts == <<>>

\* compute_percentile_cuts returning (None, None) when the fit fails, as its
\* docstring has it
compute_percentile_cuts_none(self, time, landau_converges) ==
    IF ~self.use_landau_fit
        THEN IF time = <<>> THEN {[err |-> "IndexError", cut |-> <<0, 0>>]}
             ELSE {[err |-> "none",
                    cut |-> <<Percentile100(time, self.lower_percentile),
                              Percentile100(time, self.upper_percentile)>>]}
    ELSE IF ~landau_converges THEN {[err |-> "none", cut |-> NoCuts]}
    ELSE {[err |-> "none", cut |-> <<100 * c[1], 100 * c[2]>>] : c \in SampledCuts}

\* PercentileTimeSelection.compute_percentile_cuts: every (time_min, time_max)
\* it can return, times 100, or the exception it raises
compute_percentile_cuts(self, time, landau_converges) ==
    IF ~self.use_landau_fit
        THEN IF time = <<>> THEN {[err |-> "IndexError", cut |-> <<0, 0>>]}
             ELSE {[err |-> "none",
                    cut |-> <<Percentile100(time, self.lower_percentile),
                              Percentile100(time, self.upper_percentile)>>]}
    ELSE IF ~landau_converges THEN {[err |-> "ValueError", cut |-> <<0, 0>>]}
    ELSE {[err |-> "none", cut |-> <<100 * c[1], 100 * c[2]>>] : c \in SampledCuts}

\* PercentileTimeSelection.get_mask: every mask it can return
PercentileTimeSelection_get_mask(self, event_group) ==
    LET time_key == IF Has(event_group, "pmt_time") THEN "pmt_time" ELSE "time"
    IN  IF ~Has(event_group, time_key) THEN {RaiseMask("KeyError")}
        ELSE LET time == event_group.arr[time_key]
                 cuts == compute_percentile_cuts(self, time, event_group.landau_converges)
             IN  {IF c.err # "none" THEN RaiseMask(c.err)
                  ELSE IF c.cut = NoCuts THEN OkMask([i \in 1 .. Len(time) |-> TRUE])
                  ELSE OkMask([i \in 1 .. Len(time) |->
                                  100 * time[i] >= c.cut[1] /\ 100 * time[i] <= c.cut[2]])
                  : c \in cuts}

\* selection.check_data_requirements / selection.get_mask, by class
check_data_requirements(selection, event_group) ==
    IF selection.type = "percentile"
        THEN PercentileTimeSelection_check_data_requirements(selection, event_group)
        ELSE NodeSelection_check_data_requirements(selection, event_group)

get_mask(selection, event_group) ==
    IF selection.type = "percentile"
        THEN PercentileTimeSelection_get_mask(selection, event_group)
        ELSE {NodeSelection_get_mask(selection, event_group)}

-----------------------------------------------------------------------------
(* utils.selection_compose.SelectionCompose *)

SelectionCompose_check_data_requirements(selections, event_group) ==
    \A i \in DOMAIN selections : check_data_requirements(selections[i], event_group)

\* a cumulative mask built with |=
MaskOr(m1, m2) == [i \in DOMAIN m1 |-> m1[i] \/ m2[i]]

\* line 59: cumulative_mask &= mask
MaskAnd(m1, m2) == [i \in DOMAIN m1 |-> m1[i] /\ m2[i]]

\* the loop of get_combined_mask from selection number i on: every cumulative
\* mask it can end with; the first get_mask that raises ends the call
RECURSIVE CombineFrom(_, _, _, _)
CombineFrom(selections, event_group, cumulative_mask, i) ==
    IF i > Len(selections) THEN {OkMask(cumulative_mask)}
    ELSE UNION {IF m.err # "none" THEN {RaiseMask(m.err)}
                ELSE CombineFrom(selections, event_group,
                                 MaskAnd(cumulative_mask, m.mask), i + 1)
                : m \in get_mask(selections[i], event_group)}

\* SelectionCompose.get_combined_mask (the value stored in last_mask and returned)
get_combined_mask(selections, event_group, n_nodes) ==
    CombineFrom(selections, event_group, [i \in 1 .. n_nodes |-> TRUE], 1)

\* coordinates[cumulative_mask]: the rows at the True positions, in order
BoolIndex(coordinates, mask) ==
    [d |-> coordinates.d,
     rows |-> LET kept == SelectSeq([i \in 1 .. Len(mask) |-> i], LAMBDA i : mask[i])
              IN  [j \in 1 .. Len(kept) |-> coordinates.rows[kept[j]]]]

-----------------------------------------------------------------------------
(* The edge constructors as called through EdgeBuilder: SpecEdges draws a     *)
(* builder and a coordinate array, and BuildEdges applies compute_edge_index. *)

NoParam == 0 - 1

\* the algorithm_params dictionaries of the configurations: k for the KNN
\* builders, r for radius, nothing for delaunay
AlgorithmParams(algorithm, maxk) ==
    IF algorithm \in {"knn_scipy", "knn_pyg"}
        THEN {[k |-> kk, r |-> NoParam] : kk \in 1 .. maxk}
    ELSE IF algorithm = "radius"
        THEN {[k |-> NoParam, r |-> rr] : rr \in 0 .. MaxR}
    ELSE {[k |-> NoParam, r |-> NoParam]}

NoMetricParams == [spatial_weight |-> 1, temporal_weight |-> 1, weights |-> <<>>]

\* the unit simplex of dimension d: the origin and the d unit points
PointPool(d) ==
    {[c \in 1 .. d |-> 0]} \cup {[c \in 1 .. d |-> IF c = a THEN 1 ELSE 0] : a \in 1 .. d}

CoordArrays(d, maxn) ==
    {[d |-> d, rows |-> rows] :
        rows \in UNION {[1 .. n -> PointPool(d)] : n \in 0 .. maxn}}

\* the builders are made without a metric or with weighted_euclidean and its
\* default weights
EdgeCalls ==
    {[self |-> [algorithm |-> a, metric |-> m,
                algorithm_params |-> ap, metric_params |-> NoMetricParams],
      coords |-> c] :
        a \in GRAPH_BUILDERS, ap \in UNION {AlgorithmParams(b, MaxK) : b \in GRAPH_BUILDERS},
        m \in {None, "weighted_euclidean"},
        c \in CoordArrays(2, MaxPts) \cup CoordArrays(3, MaxPts)}

Pending == [err |-> "pending", edges |-> <<>>]

NoCall ==
    [self |-> [algorithm |-> "none", metric |-> None,
               algorithm_params |-> [k |-> NoParam, r |-> NoParam],
               metric_params |-> NoMetricParams],
     coords |-> [d |-> 0, rows |-> <<>>]]

\* main's edge_builder before line 122
NoBuilder == NoCall.self

\* an EdgeBuilder.__init__ that looks up the algorithm only
EdgeBuilder_init_any_metric(algorithm, metric, algorithm_params, metric_params) ==
    IF algorithm \notin GRAPH_BUILDERS
        THEN [err |-> "ValueError", self |-> NoBuilder]
    ELSE [err |-> "none",
          self |-> [algorithm |-> algorithm, metric |-> metric,
                    algorithm_params |-> algorithm_params,
                    metric_params |-> metric_params]]

\* EdgeBuilder.__init__: the object, or the ValueError of an unknown name
EdgeBuilder_init(algorithm, metric, algorithm_params, metric_params) ==
    LET self == [algorithm |-> algorithm, metric |-> metric,
                 algorithm_params |-> algorithm_params, metric_params |-> metric_params]
    IN  IF algorithm \notin GRAPH_BUILDERS THEN [err |-> "ValueError", self |-> NoBuilder]
        ELSE IF metric # None /\ metric \notin METRIC_REGISTRY
            THEN [err |-> "ValueError", self |-> NoBuilder]
        ELSE [err |-> "none", self |-> self]

-----------------------------------------------------------------------------
(* graph_builder_main_pt.process_in_parallel and worker_slice               *)
(*                                                                         *)
(* A call is the record par: the arguments nb_datapoints and n_workers (0   *)
(* for None), the entries of the tree, the locals of the function, the      *)
(* configuration dict shared by every task, and per task of args_list its   *)
(* position in worker_slice, the pool thread that runs it and the           *)
(* identifiers RootToGraph was constructed with.                            *)

NoId == 0 - 1
NoIds == [t_id |-> NoId, t_subid |-> NoId]

\* the identifiers worker_slice reads on pool thread number k: the native id
\* of the thread and the last character of its name "ThreadPoolExecutor-0_k"
ThreadIds(k) == [t_id |-> 1000 + k, t_subid |-> k % 10]

Queued == [pc |-> "queued", thread |-> NoId, ids |-> NoIds]

NoPar ==
    [pc |-> "idle", err |-> "none", nb_datapoints |-> 0, n_workers |-> 0,
     num_entries |-> 0, cpu_count |-> 1, total_entries |-> 0, chunk_size |-> 0,
     args_list |-> <<>>, cfg |-> NoIds, task |-> <<>>, finished |-> <<>>,
     next |-> 1, all_data_graphs |-> <<>>]

\* math.floor(total_entries / n_workers)
floor_chunk_size(total_entries, n_workers) == total_entries \div n_workers

\* line 39: math.ceil(total_entries / n_workers)
chunk_size(total_entries, n_workers) == (total_entries + n_workers - 1) \div n_workers

\* lines 41-46: the slices [start, stop) of the workers 0 .. n_workers - 1,
\* the empty ones left out
RECURSIVE SlicesFrom(_, _, _, _)
SlicesFrom(w, n_workers, chunk, total_entries) ==
    IF w = n_workers THEN <<>>
    ELSE LET start == w * chunk
             stop == IF (w + 1) * chunk < total_entries THEN (w + 1) * chunk
                     ELSE total_entries
             rest == SlicesFrom(w + 1, n_workers, chunk, total_entries)
         IN  IF start < stop THEN <<[start |-> start, stop |-> stop]>> \o rest
             ELSE rest

\* RootToGraph(start, stop).process(): one graph per entry of the slice, in
\* the order of the entries
RootToGraph_process(start, stop) == [i \in 1 .. (stop - start) |-> start + i - 1]

-----------------------------------------------------------------------------
(* The Dataset Driver: edge_index_generator.main *)

\* the ids of the stores of the Driver runs, and the ids of the stores on
\* which the order of the loop is studied: "event_10" sorts before "event_2"
\* as a string
StoreIds == 0 .. (NumEvents - 1)
OrderIds == {0, 2, 10}
EventIds == StoreIds \cup OrderIds

\* the name of event n after "event_": the decimal digits of n
RECURSIVE NameOf(_)
NameOf(n) == IF n < 10 THEN <<n>> ELSE Append(NameOf(n \div 10), n % 10)

\* int(x.split('_')[1]) of the name x (line 168)
RECURSIVE int(_)
int(x) ==
    IF x = <<>> THEN 0 ELSE 10 * int(SubSeq(x, 1, Len(x) - 1)) + x[Len(x)]

\* the order of strings
RECURSIVE StrLess(_, _)
StrLess(x, y) ==
    IF y = <<>> THEN FALSE
    ELSE IF x = <<>> THEN TRUE
    ELSE Head(x) < Head(y) \/ (Head(x) = Head(y) /\ StrLess(Tail(x), Tail(y)))

\* the names of a set, in the order of the name index of a file
RECURSIVE NamesInOrder(_)
NamesInOrder(names) ==
    IF names = {} THEN <<>>
    ELSE LET first == CHOOSE x \in names : \A y \in names \ {x} : StrLess(x, y)
         IN  <<first>> \o NamesInOrder(names \ {first})

\* line 167: the names in data_file.keys() that start with "event_"
file_keys(file) == NamesInOrder({NameOf(n) : n \in DOMAIN file})

\* list.sort is stable: x goes behind the names whose number is not larger
RECURSIVE InsertByNumber(_, _)
InsertByNumber(sorted, x) ==
    IF sorted = <<>> THEN <<x>>
    ELSE IF int(Head(sorted)) <= int(x)
        THEN <<Head(sorted)>> \o InsertByNumber(Tail(sorted), x)
    ELSE <<x>> \o sorted

RECURSIVE SortFrom(_, _)
SortFrom(sorted, rest) ==
    IF rest = <<>> THEN sorted
    ELSE SortFrom(InsertByNumber(sorted, Head(rest)), Tail(rest))

\* a driver that takes the events in the order of keys()
left_unsorted(names) == names

\* line 168: event_names.sort(key=lambda x: int(x.split('_')[1]))
sort_by_event_number(names) == SortFrom(<<>>, names)

\* the feature names an input store gives its events
KeySets ==
    { {"x", "y", "z", "time", "charge"},
      {"x", "y", "z", "pmt_time", "pmt_charge"},
      {"x", "y", "z", "time"} }

\* an event of n nodes: node i (1 .. n) at (i-1, 0, 0), time i, charge 1
EventGroup(n, keys, converges) ==
    [arr |-> [key \in keys |->
                 [i \in 1 .. n |->
                     IF key = "x" THEN i - 1
                     ELSE IF key \in {"y", "z"} THEN 0
                     ELSE IF key \in {"time", "pmt_time"} THEN i
                     ELSE 1]],
     landau_converges |-> converges]

\* the fit cannot converge on an empty time array
EventPool(keys) ==
    {EventGroup(n, keys, c) : n \in 0 .. MaxNodes, c \in BOOLEAN}
        \ {EventGroup(0, keys, TRUE)}

DataFiles == UNION {[StoreIds -> EventPool(ks)] : ks \in KeySets}

\* stores of the ids OrderIds, every event of MaxNodes nodes
OrderFiles ==
    [OrderIds -> {EventGroup(MaxNodes, {"x", "y", "z", "time", "charge"}, c) :
                     c \in BOOLEAN}]

\* an output dataset: its content and (history) the run that created it
Absent == [there |-> FALSE, data |-> <<>>, run |-> 0]
Dataset(data, r) == [there |-> TRUE, data |-> data, run |-> r]

NoAttrs == [written |-> FALSE]
NoFile == [exists |-> FALSE, attrs |-> NoAttrs,
           edges |-> [n \in EventIds |-> Absent], masks |-> [n \in EventIds |-> Absent]]
\* h5py.File(target_file, 'w'): a new, empty file
EmptyFile == [NoFile EXCEPT !.exists = TRUE]

NoSelection == [given |-> FALSE, selections |-> <<>>]
Selection(selections) == [given |-> TRUE, selections |-> selections]

NodeSelection(time_cut, charge_cut) ==
    [type |-> "fixed", time_cut |-> time_cut, charge_cut |-> charge_cut]
PercentileTimeSelection(lower, upper, landau) ==
    [type |-> "percentile", lower_percentile |-> lower, upper_percentile |-> upper,
     use_landau_fit |-> landau]

\* the node_selection entries of the configurations (lines 93-118 build the
\* selection objects from them; percentile defaults 5.0, 90.0, True)
NodeSelections ==
    { NoSelection,
      Selection(<<NodeSelection(Cut(Bound(2), Unset), NoCut)>>),
      Selection(<<PercentileTimeSelection(5, 90, TRUE)>>) }

PosFeatures == { <<"x", "y", "z">>, <<"x", "y", "z", "time">> }

MetricSetups ==
    { [metric |-> None, metric_params |-> NoMetricParams],
      [metric |-> "euclidean_3d", metric_params |-> NoMetricParams],
      [metric |-> "spacetime", metric_params |-> NoMetricParams],
      [metric |-> "weighted_euclidean",
       metric_params |-> [NoMetricParams EXCEPT !.weights = <<1, 1, 1>>]] }

DriverParams(algorithm) ==
    {ap \in AlgorithmParams(algorithm, 1) : ap.r \in {NoParam, MaxR}}

\* the algorithm names of the configurations: the registered ones and one
\* that is not
Algorithms == GRAPH_BUILDERS \cup {"voronoi"}

\* the Args objects of the runs
Configs ==
    {[algorithm |-> a, algorithm_params |-> ap, metric |-> m.metric,
      metric_params |-> m.metric_params, pos_features |-> pf,
      node_selection |-> ns, overwrite |-> ow, combine_files |-> cf] :
        a \in Algorithms, ap \in UNION {DriverParams(b) : b \in Algorithms},
        m \in MetricSetups, pf \in PosFeatures, ns \in NodeSelections, ow \in BOOLEAN,
        cf \in BOOLEAN}

NoArgs ==
    [algorithm |-> "none", algorithm_params |-> [k |-> NoParam, r |-> NoParam],
     metric |-> None, metric_params |-> NoMetricParams, pos_features |-> <<>>,
     node_selection |-> NoSelection, overwrite |-> FALSE, combine_files |-> FALSE]

NoMask == [given |-> FALSE, v |-> <<>>]
Mask(v) == [given |-> TRUE, v |-> v]
\* history of one event in a run: what is "todo", "exists" (skipped, line 183),
\* "empty" (skipped, line 200), "raised", "computed" or "written"
Todo == [what |-> "todo", mask |-> NoMask, edge_index |-> <<>>]

NoLocals == [filtered_coords |-> [d |-> 0, rows |-> <<>>], selection_mask |-> NoMask,
             edge_index |-> <<>>]

\* what args.overwrite and the rest of the state leave of a configuration in
\* the top-level attributes (lines 159-165)
Provenance(a) ==
    [written |-> TRUE, algorithm |-> a.algorithm, metric |-> a.metric,
     algorithm_params |-> a.algorithm_params, metric_params |-> a.metric_params,
     pos_features |-> a.pos_features, combine_files |-> a.combine_files,
     node_selection |-> a.node_selection]

\* lines 122-127
EdgeBuilderOf(a) ==
    EdgeBuilder_init(a.algorithm, a.metric, a.algorithm_params, a.metric_params)

\* a driver that saves one byte per node kept
AsUint8OfKept(mask) == [i \in 1 .. Len(SelectSeq(mask, LAMBDA b : b)) |-> 1]

\* selection_mask.astype(np.uint8)
AsUint8(mask) == [i \in DOMAIN mask |-> IF mask[i] THEN 1 ELSE 0]

\* np.stack([data_event_group[f][:] for f in pos_features], axis=1)
StackFeatures(event_group, pos_features) ==
    LET n == Len(event_group.arr[pos_features[1]])
    IN  [d |-> Len(pos_features),
         rows |-> [i \in 1 .. n |->
                      [c \in 1 .. Len(pos_features) |-> event_group.arr[pos_features[c]][i]]]]

InitDriverOn(files) ==
    /\ data_file \in files
    /\ target = NoFile
    /\ run = 0
    /\ args = NoArgs
    /\ edge_builder = NoBuilder
    /\ pc = "idle"
    /\ event_names = <<>>
    /\ event_idx = 0
    /\ last_mask = NoMask
    /\ loc = NoLocals
    /\ error = "none"
    /\ pre = NoFile
    /\ outcome = [n \in EventIds |-> Todo]

InitDriver == InitDriverOn(DataFiles)

Init ==
    InitDriver /\ e_in = NoCall /\ e_out = Pending /\ f_in = NoCall /\ f_out = Pending
        /\ par = NoPar

\* main is entered: the selection objects and the EdgeBuilder are constructed
\* (lines 91-127).  The first run on a store finds no entry to skip or replace,
\* so its overwrite flag is left at the default; a later run keeps the
\* algorithm, metric and features of the store and chooses overwrite and the
\* selection anew.
Enter(a) ==
    /\ args' = a
    /\ LET built == EdgeBuilderOf(a)
       IN  /\ edge_builder' = built.self
           /\ error' = built.err
           /\ pc' = IF built.err = "none" THEN "open" ELSE "failed"
    /\ run' = run + 1
    /\ event_idx' = 0
    /\ last_mask' = NoMask
    /\ loc' = NoLocals
    /\ pre' = target
    /\ outcome' = [n \in EventIds |-> Todo]
    /\ event_names' = <<>>
    /\ UNCHANGED <<par, e_in, e_out, f_in, f_out, data_file, target>>

\* a run with a separate output file
StartRun ==
    /\ pc \in {"idle", "done", "failed"}
    /\ run < MaxRuns
    /\ \E a \in Configs :
          /\ ~a.combine_files
          /\ a.algorithm_params \in DriverParams(a.algorithm)
          /\ IF run = 0 THEN ~a.overwrite
             ELSE a = [args EXCEPT !.overwrite = a.overwrite,
                                   !.node_selection = a.node_selection]
          /\ Enter(a)

\* the first run with combine_files, on an input store that holds event
\* groups only; the events themselves are entries of the target, so the
\* overwrite flag matters from the first run on
StartCombinedRun ==
    /\ pc = "idle"
    /\ run = 0
    /\ \E a \in Configs :
          /\ a.combine_files
          /\ a.algorithm_params \in DriverParams(a.algorithm)
          /\ Enter(a)

\* lines 132-145: file_mode is 'a' when the output file exists, else 'w'.
\* With combine_files the target is the data file, opened 'a' while it is open
\* 'r': the HDF5 library either refuses the second open or grants it.
OpenFiles ==
    /\ pc = "open"
    /\ \/ /\ target' = IF target.exists THEN target ELSE EmptyFile
          /\ pc' = "validate"
          /\ error' = error
       \/ /\ args.combine_files
          /\ target' = target
          /\ pc' = "failed"
          /\ error' = "OSError"
    /\ UNCHANGED <<par, e_in, e_out, f_in, f_out, event_names, data_file, run, args, edge_builder, event_idx, last_mask, loc, pre, outcome>>

\* lines 148-156: the checks made on event_0
ValidationPasses ==
    /\ \A i \in DOMAIN args.pos_features : Has(data_file[0], args.pos_features[i])
    /\ args.node_selection.given =>
          SelectionCompose_check_data_requirements(args.node_selection.selections,
                                                   data_file[0])

Validate ==
    /\ pc = "validate"
    /\ IF ValidationPasses
          THEN pc' = "attrs" /\ error' = error
          ELSE pc' = "failed" /\ error' = "ValueError"
    /\ UNCHANGED <<par, e_in, e_out, f_in, f_out, event_names, data_file, target, run, args, edge_builder, event_idx, last_mask, loc, pre, outcome>>

\* lines 158-169
WriteAttrs ==
    /\ pc = "attrs"
    /\ target' = [target EXCEPT !.attrs = Provenance(args)]
    /\ event_names' = sort_by_event_number(file_keys(data_file))
    /\ event_idx' = 0
    /\ pc' = "loop"
    /\ UNCHANGED <<par, e_in, e_out, f_in, f_out, data_file, run, args, edge_builder, last_mask, loc, error, pre, outcome>>

\* the event the loop stands at: the id of the group named event_names[event_idx]
event_name == CHOOSE n \in EventIds : NameOf(n) = event_names[event_idx + 1]

\* a driver in which a failed computation still reaches the deletes of lines
\* 213-217
DeleteAnyway(what, mask) ==
    /\ outcome' = [outcome EXCEPT ![event_name] = [Todo EXCEPT !.what = "raised", !.mask = mask]]
    /\ event_idx' = event_idx
    /\ pc' = "del_edge"
    /\ error' = error
    /\ loc' = NoLocals

\* "continue" of lines 183 and 203: the next event, nothing stored
Continue(what, mask) ==
    /\ outcome' = [outcome EXCEPT ![event_name] = [Todo EXCEPT !.what = what, !.mask = mask]]
    /\ event_idx' = event_idx + 1
    /\ pc' = "loop"
    /\ error' = error
    /\ loc' = NoLocals

\* an exception inside the loop leaves main: nothing after it is executed
Abort(what, mask) ==
    /\ outcome' = [outcome EXCEPT ![event_name] = [Todo EXCEPT !.what = "raised", !.mask = mask]]
    /\ event_idx' = event_idx
    /\ pc' = "failed"
    /\ error' = what
    /\ loc' = NoLocals

\* a SelectionCompose that leaves its cache as it was
KeepLastMask(cached, cumulative_mask) == cached

\* selection_compose.py line 61: self.last_mask = cumulative_mask, read back
\* by main at line 196
StoreLastMask(cached, cumulative_mask) == Mask(cumulative_mask)

\* a driver that takes every event for stored already
AlwaysInTarget(n) == TRUE

\* "event_name in target_h5_file": an edge index of that name, or with
\* combine_files the event group itself
InTarget(n) == target.edges[n].there \/ (args.combine_files /\ n \in DOMAIN data_file)

\* a driver without the check of line 198
NeverEmptyAfterSelection(filtered_coords) == FALSE

\* line 198: no node is left by the selection
EmptyAfterSelection(filtered_coords) == NumRows(filtered_coords) = 0

\* lines 205-207 for the coordinates kept: an exception ends main, a result
\* goes on to be persisted
ComputeAndGo(filtered_coords, selection_mask) ==
    \E res \in compute_edge_index(edge_builder, filtered_coords) :
        IF res.err # "none" THEN Abort(res.err, selection_mask)
        ELSE /\ loc' = [filtered_coords |-> filtered_coords,
                        selection_mask |-> selection_mask,
                        edge_index |-> res.edges]
             /\ pc' = "del_edge"
             /\ outcome' = [outcome EXCEPT ![event_name] =
                                [what |-> "computed", mask |-> selection_mask,
                                 edge_index |-> res.edges]]
             /\ UNCHANGED <<event_idx, error>>

\* lines 179-207: one iteration up to the computed edge index
ProcessEvent ==
    /\ pc = "loop"
    /\ event_idx < Len(event_names)
    /\ LET data_event_group == data_file[event_name]
       IN  IF InTarget(event_name) /\ ~args.overwrite
               THEN Continue("exists", NoMask) /\ last_mask' = last_mask
           ELSE IF \E i \in DOMAIN args.pos_features :
                       ~Has(data_event_group, args.pos_features[i])
               THEN Abort("KeyError", NoMask) /\ last_mask' = last_mask
           ELSE LET raw_edge_coords == StackFeatures(data_event_group, args.pos_features)
                IN  IF args.node_selection.given
                        THEN \E m \in get_combined_mask(args.node_selection.selections,
                                          data_event_group, NumRows(raw_edge_coords)) :
                                IF m.err # "none"
                                    THEN Abort(m.err, NoMask) /\ last_mask' = last_mask
                                ELSE /\ last_mask' = StoreLastMask(last_mask, m.mask)
                                     /\ LET filtered_coords ==
                                                BoolIndex(raw_edge_coords, m.mask)
                                            selection_mask == last_mask'
                                        IN  IF EmptyAfterSelection(filtered_coords)
                                                THEN Continue("empty", selection_mask)
                                                ELSE ComputeAndGo(filtered_coords,
                                                                  selection_mask)
                        ELSE /\ last_mask' = last_mask
                             /\ ComputeAndGo(raw_edge_coords, NoMask)
    /\ UNCHANGED <<par, e_in, e_out, f_in, f_out, event_names, data_file, target, run, args, edge_builder, pre>>

\* lines 213-214: del target_h5_file[event_name] removes the member of that
\* name, with combine_files the event group
DeleteEdge ==
    /\ pc = "del_edge"
    /\ target' = [target EXCEPT !.edges[event_name] = Absent]
    /\ data_file' = IF args.combine_files
                        THEN [n \in DOMAIN data_file \ {event_name} |-> data_file[n]]
                        ELSE data_file
    /\ pc' = "del_mask"
    /\ UNCHANGED <<par, e_in, e_out, f_in, f_out, event_names, run, args, edge_builder, event_idx, last_mask, loc, error, pre, outcome>>

\* a driver that leaves the mask of the earlier run in place
DeleteMaskLeftOut ==
    /\ pc = "del_mask"
    /\ pc' = "create_edge"
    /\ UNCHANGED <<par, e_in, e_out, f_in, f_out, event_names, data_file, target, run, args, edge_builder, event_idx, last_mask, loc, error, pre, outcome>>

\* lines 215-217
DeleteMask ==
    /\ pc = "del_mask"
    /\ target' = [target EXCEPT !.masks[event_name] = Absent]
    /\ pc' = "create_edge"
    /\ UNCHANGED <<par, e_in, e_out, f_in, f_out, event_names, data_file, run, args, edge_builder, event_idx, last_mask, loc, error, pre, outcome>>

\* lines 219-224, and the end of the iteration when no mask is to be saved
CreateEdge ==
    /\ pc = "create_edge"
    /\ target' = [target EXCEPT !.edges[event_name] = Dataset(loc.edge_index, run)]
    /\ IF loc.selection_mask.given
          THEN pc' = "create_mask" /\ UNCHANGED <<event_idx, loc, outcome>>
          ELSE /\ pc' = "loop"
               /\ event_idx' = event_idx + 1
               /\ loc' = NoLocals
               /\ outcome' = [outcome EXCEPT ![event_name].what = "written"]
    /\ UNCHANGED <<par, e_in, e_out, f_in, f_out, event_names, data_file, run, args, edge_builder, last_mask, error, pre>>

\* lines 226-232
CreateMask ==
    /\ pc = "create_mask"
    /\ target' = [target EXCEPT
                     !.masks[event_name] = Dataset(AsUint8(loc.selection_mask.v), run)]
    /\ pc' = "loop"
    /\ event_idx' = event_idx + 1
    /\ loc' = NoLocals
    /\ outcome' = [outcome EXCEPT ![event_name].what = "written"]
    /\ UNCHANGED <<par, e_in, e_out, f_in, f_out, event_names, data_file, run, args, edge_builder, last_mask, error, pre>>

\* the loop is exhausted: main returns
Finish ==
    /\ pc = "loop"
    /\ event_idx = Len(event_names)
    /\ pc' = "done"
    /\ UNCHANGED <<par, e_in, e_out, f_in, f_out, event_names, data_file, target, run, args, edge_builder, event_idx, last_mask, loc, error, pre,
                   outcome>>

Next ==
    \/ StartRun
    \/ OpenFiles
    \/ Validate
    \/ WriteAttrs
    \/ ProcessEvent
    \/ DeleteEdge
    \/ DeleteMask
    \/ CreateEdge
    \/ CreateMask
    \/ Finish

vars == <<e_in, e_out, f_in, f_out, data_file, target, run, args,
          edge_builder, pc, event_names, event_idx, last_mask, loc,
          error, pre, outcome, par>>

Spec == Init /\ [][Next]_vars

\* SpecCombine: the Driver with combine_files
NextCombine ==
    \/ StartCombinedRun
    \/ OpenFiles
    \/ Validate
    \/ WriteAttrs
    \/ ProcessEvent
    \/ DeleteEdge
    \/ DeleteMask
    \/ CreateEdge
    \/ CreateMask
    \/ Finish

SpecCombine == Init /\ [][NextCombine]_vars

\* SpecOrder: the Driver on stores whose event ids are OrderIds
InitOrder ==
    InitDriverOn(OrderFiles) /\ e_in = NoCall /\ e_out = Pending /\ f_in = NoCall
        /\ f_out = Pending /\ par = NoPar

SpecOrder == InitOrder /\ [][Next]_vars

-----------------------------------------------------------------------------
(* SpecEdges: the edge constructors alone, the Driver at rest *)

InitEdges ==
    /\ e_in \in {c \in EdgeCalls :
                    c.self.algorithm_params \in AlgorithmParams(c.self.algorithm, MaxK)}
    /\ e_out = Pending
    /\ f_in = NoCall
    /\ f_out = Pending
    /\ par = NoPar
    /\ data_file = [n \in EventIds |-> EventGroup(0, {"x", "y", "z"}, FALSE)]
    /\ target = NoFile
    /\ run = 0
    /\ args = NoArgs
    /\ edge_builder = NoBuilder
    /\ pc = "idle"
    /\ event_names = <<>>
    /\ event_idx = 0
    /\ last_mask = NoMask
    /\ loc = NoLocals
    /\ error = "none"
    /\ pre = NoFile
    /\ outcome = [n \in EventIds |-> Todo]

BuildEdges ==
    /\ e_out = Pending
    /\ e_out' \in compute_edge_index(e_in.self, e_in.coords)
    /\ UNCHANGED <<par, e_in, f_in, f_out>>
    /\ UNCHANGED driver_vars

NextEdges == BuildEdges

SpecEdges == InitEdges /\ [][NextEdges]_vars

-----------------------------------------------------------------------------
(* SpecCalls: single calls of the functions of the pipeline, the Driver at   *)
(* rest.  f_in is the call, f_out its result [ret |-> .., lib |-> ..] with   *)
(* lib what the library gave inside the call (tetrahedra, sampled cuts).     *)

\* n points on the curve (t, t^2, t^3): no four of them are coplanar
CurvePoints(n) == [d |-> 3, rows |-> [i \in 1 .. n |-> <<i, i * i, i * i * i>>]]

DelaunayCalls ==
    {[fn |-> "delaunay.build_edges", coords |-> CurvePoints(n)] : n \in 0 .. MaxCurvePts}

\* the values a signal takes: below, at and above the bound of a cut
Signals == {Threshold - 1, Threshold, Threshold + 1}

\* an event group with a time and a charge array
SignalEvent(time, charge, converges) ==
    [arr |-> [key \in {"time", "charge"} |-> IF key = "time" THEN time ELSE charge],
     landau_converges |-> converges]

SignalEvents ==
    UNION {{SignalEvent(t, c, cv) :
               t \in [1 .. n -> Signals], c \in [1 .. n -> Signals],
               cv \in IF n = 0 THEN {FALSE} ELSE BOOLEAN} : n \in 0 .. MaxNodes}

\* None, {}, {'min': b}, {'max': b}, {'min': b, 'max': b}
CutChoices ==
    {NoCut} \cup {Cut(mn, mx) : mn \in {Unset, Bound(Threshold)},
                                mx \in {Unset, Bound(Threshold)}}

ThresholdPredicates == {NodeSelection(tc, cc) : tc \in CutChoices, cc \in CutChoices}
PercentilePredicates == {PercentileTimeSelection(5, 90, l) : l \in BOOLEAN}

GetMaskCalls ==
    {[fn |-> "get_mask", selection |-> sel, event_group |-> ev] :
        sel \in ThresholdPredicates \cup PercentilePredicates, ev \in SignalEvents}

\* the predicates composed: a time cut, a charge cut, the two percentile modes
ComposePool ==
    { NodeSelection(Cut(Bound(Threshold), Unset), NoCut),
      NodeSelection(NoCut, Cut(Unset, Bound(Threshold))) } \cup PercentilePredicates

\* SelectionCompose([P1]) and SelectionCompose([P1, P2])
CombineCalls ==
    {[fn |-> "get_combined_mask", selections |-> ss, event_group |-> ev] :
        ss \in {<<sel>> : sel \in ComposePool} \cup (ComposePool \X ComposePool),
        ev \in SignalEvents}

\* the attributes class NodeSelection defines (node_selection.py lines 17-74)
NodeSelection_attributes ==
    {"__init__", "check_data_requirements", "get_mask", "time_cut", "charge_cut"}

\* node_selection.apply_selection(coords, time, charge) as simple_test.py
\* calls it; coords holds the row numbers
ApplySelectionCalls ==
    {[fn |-> "apply_selection", selection |-> sel, time |-> ev.arr["time"],
      charge |-> ev.arr["charge"],
      coords |-> [d |-> 1, rows |-> [i \in DOMAIN ev.arr["time"] |-> <<i>>]]] :
        sel \in ThresholdPredicates,
        ev \in {e \in SignalEvents : ~e.landau_converges}}

\* event groups of two nodes that carry any of the four signal names
KeyedEvents ==
    {[arr |-> [key \in ks |-> IF key \in {"time", "pmt_time"} THEN <<1, 2>> ELSE <<1, 1>>],
      landau_converges |-> cv] :
        ks \in SUBSET {"time", "pmt_time", "charge", "pmt_charge"}, cv \in BOOLEAN}

RequirementCalls ==
    {[fn |-> "check_data_requirements", selection |-> sel, event_group |-> ev] :
        sel \in ThresholdPredicates \cup PercentilePredicates, ev \in KeyedEvents}

NoLib == [err |-> "none", simplices |-> {}]

InitCalls ==
    /\ f_in \in DelaunayCalls \cup GetMaskCalls \cup CombineCalls \cup ApplySelectionCalls
                \cup RequirementCalls
    /\ f_out = Pending
    /\ e_in = NoCall
    /\ e_out = Pending
    /\ par = NoPar
    /\ data_file = [n \in EventIds |-> EventGroup(0, {"x", "y", "z"}, FALSE)]
    /\ target = NoFile
    /\ run = 0
    /\ args = NoArgs
    /\ edge_builder = NoBuilder
    /\ pc = "idle"
    /\ event_names = <<>>
    /\ event_idx = 0
    /\ last_mask = NoMask
    /\ loc = NoLocals
    /\ error = "none"
    /\ pre = NoFile
    /\ outcome = [n \in EventIds |-> Todo]

\* delaunay.build_edges(coords)
CallDelaunay ==
    /\ f_out = Pending
    /\ f_in.fn = "delaunay.build_edges"
    /\ \E tri \in IF NumRows(f_in.coords) >= 4 THEN Delaunay(f_in.coords) ELSE {NoLib} :
          f_out' = [ret |-> delaunay_build_edges(f_in.coords, tri), lib |-> tri]
    /\ UNCHANGED <<par, f_in, e_in, e_out>>
    /\ UNCHANGED driver_vars

\* selection.get_mask(event_group)
CallGetMask ==
    /\ f_out = Pending
    /\ f_in.fn = "get_mask"
    /\ \E m \in get_mask(f_in.selection, f_in.event_group) :
          f_out' = [ret |-> m, lib |-> NoLib]
    /\ UNCHANGED <<par, f_in, e_in, e_out>>
    /\ UNCHANGED driver_vars

\* SelectionCompose(selections).get_combined_mask(event_group, n_nodes)
CallCombine ==
    /\ f_out = Pending
    /\ f_in.fn = "get_combined_mask"
    /\ \E m \in get_combined_mask(f_in.selections, f_in.event_group,
                                   Len(f_in.event_group.arr["time"])) :
          f_out' = [ret |-> m, lib |-> NoLib]
    /\ UNCHANGED <<par, f_in, e_in, e_out>>
    /\ UNCHANGED driver_vars

\* node_selection.apply_selection(coords, time, charge): the attribute is
\* looked up first, and NodeSelection has none of that name
CallApplySelection ==
    /\ f_out = Pending
    /\ f_in.fn = "apply_selection"
    /\ "apply_selection" \notin NodeSelection_attributes
    /\ f_out' = [ret |-> RaiseCoords("AttributeError"), lib |-> NoLib]
    /\ UNCHANGED <<par, f_in, e_in, e_out>>
    /\ UNCHANGED driver_vars

\* selection.check_data_requirements(event_group)
CallCheckDataRequirements ==
    /\ f_out = Pending
    /\ f_in.fn = "check_data_requirements"
    /\ f_out' = [ret |-> check_data_requirements(f_in.selection, f_in.event_group),
                 lib |-> NoLib]
    /\ UNCHANGED <<par, f_in, e_in, e_out>>
    /\ UNCHANGED driver_vars

NextCalls ==
    \/ CallDelaunay
    \/ CallGetMask
    \/ CallCombine
    \/ CallApplySelection
    \/ CallCheckDataRequirements

SpecCalls == InitCalls /\ [][NextCalls]_vars

-----------------------------------------------------------------------------
(* SpecParallel: one call of process_in_parallel, the Driver at rest *)

ParCalls ==
    {[NoPar EXCEPT !.pc = "called", !.nb_datapoints = nb, !.n_workers = nw,
                   !.num_entries = ne, !.cpu_count = cc] :
        nb \in 0 .. MaxEntries, nw \in 0 .. MaxWorkers,
        ne \in {MaxEntries - 1, MaxEntries}, cc \in {1, MaxWorkers}}

InitParallel ==
    /\ InitDriverOn({[n \in EventIds |-> EventGroup(0, {"x", "y", "z"}, FALSE)]})
    /\ e_in = NoCall /\ e_out = Pending /\ f_in = NoCall /\ f_out = Pending
    /\ par \in ParCalls

Tasks == DOMAIN par.task

\* lines 33-46: the entries are counted and cut into slices
Split ==
    /\ par.pc = "called"
    /\ LET total_entries == IF par.nb_datapoints < par.num_entries
                                THEN par.nb_datapoints ELSE par.num_entries
           cpus == IF par.cpu_count < par.nb_datapoints
                       THEN par.cpu_count ELSE par.nb_datapoints
           n_workers == IF par.n_workers # 0 THEN par.n_workers ELSE cpus
       IN  IF n_workers = 0
               THEN par' = [par EXCEPT !.pc = "failed", !.err = "ZeroDivisionError",
                                       !.total_entries = total_entries]
           ELSE LET chunk == chunk_size(total_entries, n_workers)
                    args_list == SlicesFrom(0, n_workers, chunk, total_entries)
                IN  par' = [par EXCEPT !.pc = "map", !.n_workers = n_workers,
                                       !.total_entries = total_entries,
                                       !.chunk_size = chunk,
                                       !.args_list = args_list,
                                       !.task = [i \in DOMAIN args_list |-> Queued]]
    /\ UNCHANGED <<e_in, e_out, f_in, f_out>>
    /\ UNCHANGED driver_vars

\* the pool threads that run a task now
Busy == {par.task[i].thread : i \in {j \in Tasks : par.task[j].pc \notin {"queued", "done"}}}

\* a pool thread takes a task from the queue and enters worker_slice
\* (lines 23-26); the pool has at most one thread per task submitted
TaskEnter ==
    /\ par.pc = "map"
    /\ \E i \in Tasks, k \in 0 .. (par.n_workers - 1) :
          /\ par.task[i].pc = "queued"
          /\ k < Len(par.args_list)
          /\ k \notin Busy
          /\ par' = [par EXCEPT !.task[i].pc = "entered", !.task[i].thread = k]
    /\ UNCHANGED <<e_in, e_out, f_in, f_out>>
    /\ UNCHANGED driver_vars

\* line 27, first statement: cfg['t_id'] = tid
TaskWriteTid ==
    /\ \E i \in Tasks :
          /\ par.task[i].pc = "entered"
          /\ par' = [par EXCEPT !.task[i].pc = "t_id",
                                !.cfg.t_id = ThreadIds(par.task[i].thread).t_id]
    /\ UNCHANGED <<e_in, e_out, f_in, f_out>>
    /\ UNCHANGED driver_vars

\* line 27, second statement: cfg['t_subid'] = tname[-1]
TaskWriteSubid ==
    /\ \E i \in Tasks :
          /\ par.task[i].pc = "t_id"
          /\ par' = [par EXCEPT !.task[i].pc = "t_subid",
                                !.cfg.t_subid = ThreadIds(par.task[i].thread).t_subid]
    /\ UNCHANGED <<e_in, e_out, f_in, f_out>>
    /\ UNCHANGED driver_vars

\* line 28: RootToGraph(file_path=file_path, start=start, stop=stop, **cfg)
TaskConstruct ==
    /\ \E i \in Tasks :
          /\ par.task[i].pc = "t_subid"
          /\ par' = [par EXCEPT !.task[i].pc = "built", !.task[i].ids = par.cfg]
    /\ UNCHANGED <<e_in, e_out, f_in, f_out>>
    /\ UNCHANGED driver_vars

\* lines 29-30: the slice is processed and the task returns
TaskReturn ==
    /\ \E i \in Tasks :
          /\ par.task[i].pc = "built"
          /\ par' = [par EXCEPT !.task[i].pc = "done",
                                !.finished = Append(par.finished, i)]
    /\ UNCHANGED <<e_in, e_out, f_in, f_out>>
    /\ UNCHANGED driver_vars

\* lines 49-50: exe.map yields the result of the next task of args_list once
\* that task has returned
Collect ==
    /\ par.pc = "map"
    /\ par.next \in Tasks
    /\ par.task[par.next].pc = "done"
    /\ LET a == par.args_list[par.next]
       IN  par' = [par EXCEPT !.next = par.next + 1,
                             !.all_data_graphs =
                                 par.all_data_graphs \o RootToGraph_process(a.start, a.stop)]
    /\ UNCHANGED <<e_in, e_out, f_in, f_out>>
    /\ UNCHANGED driver_vars

\* line 53
ParallelReturn ==
    /\ par.pc = "map"
    /\ par.next = Len(par.args_list) + 1
    /\ par' = [par EXCEPT !.pc = "done"]
    /\ UNCHANGED <<e_in, e_out, f_in, f_out>>
    /\ UNCHANGED driver_vars

NextParallel ==
    \/ Split
    \/ TaskEnter
    \/ TaskWriteTid
    \/ TaskWriteSubid
    \/ TaskConstruct
    \/ TaskReturn
    \/ Collect
    \/ ParallelReturn

SpecParallel == InitParallel /\ [][NextParallel]_vars

-----------------------------------------------------------------------------
(* Properties of the edge constructors (checked under SpecEdges) *)

EdgeSet(edges) == Range(edges)
CallN == NumRows(e_in.coords)
Returned == e_out.err = "none"
Called == e_out # Pending

Symmetric(edges) == \A e \in EdgeSet(edges) : <<e[2], e[1]>> \in EdgeSet(edges)
SelfLoopFree(edges) == \A e \in EdgeSet(edges) : e[1] # e[2]
NoDuplicate(edges) == Cardinality(EdgeSet(edges)) = Len(edges)

\* fewer points than the algorithm needs
SubMinimum ==
    \/ CallN = 0
    \/ e_in.self.algorithm = "knn_scipy" /\ CallN <= e_in.self.algorithm_params.k
    \/ e_in.self.algorithm = "delaunay" /\ CallN < 4

\* C8: every edge constructor reachable through EdgeBuilder returns the explicit
\* empty edge index, without raising, on N = 0 points or on fewer points than
\* the algorithm needs (KNN-exact with N <= k, Delaunay with N < 4).
C8_SubMinimumGivesEmpty ==
    (Called /\ SubMinimum) => (e_out.err = "none" /\ e_out.edges = EmptyEdgeIndex)

\* C9: the KNN-exact output is symmetric, self-loop-free, without duplicate
\* pair, and of at most 2*N*k edges, for every input.
C9_KnnExactContract ==
    (Called /\ Returned /\ e_in.self.algorithm = "knn_scipy") =>
        /\ Symmetric(e_out.edges)
        /\ SelfLoopFree(e_out.edges)
        /\ NoDuplicate(e_out.edges)
        /\ Len(e_out.edges) <= 2 * CallN * e_in.self.algorithm_params.k

\* C10: the KNN-accelerated output has no self-loop, adds no reverse edge, and
\* is the KNN-exact edge set before symmetrization: the same neighbour relation
\* for some order of the equidistant points, whichever end of a column holds
\* the neighbour.
C10_PygIsExactDirected ==
    (Called /\ e_in.self.algorithm = "knn_pyg") =>
        /\ Returned
        /\ SelfLoopFree(e_out.edges)
        /\ \E tie \in Rankings(CallN) :
              LET exact == EdgeSet(knn_scipy_directed(e_in.coords,
                                       e_in.self.algorithm_params.k, tie))
              IN  \/ EdgeSet(e_out.edges) = exact
                  \/ EdgeSet(Reversed(e_out.edges)) = exact

\* build_edges of the delaunay module is what the call reaches, on e_in.coords
DelaunayCall == Called /\ e_in.self.algorithm = "delaunay" /\ e_in.self.metric = None

\* the points span no volume: Qhull cannot build a first simplex
Degenerate(coords) == coords.d = 3 /\ Tetrahedra(coords) = {}

\* C11: on fewer than 4 points, or on points on which the triangulation fails
\* (coincident, collinear or coplanar), delaunay.build_edges returns the empty
\* edge index and raises nothing.
C11_DelaunayFailureGivesEmpty ==
    (DelaunayCall /\ (CallN < 4 \/ Degenerate(e_in.coords))) =>
        (e_out.err = "none" /\ e_out.edges = EmptyEdgeIndex)

C11_Witness ==
    /\ DelaunayCall
    /\ CallN >= 4
    /\ Degenerate(e_in.coords)
    /\ e_out = Ok(EmptyEdgeIndex)

WeightedCall == Called /\ e_in.self.metric = "weighted_euclidean"

\* C17: the [N, N] matrix of weighted_euclidean is used as a matrix of
\* distances, not as N points of N coordinates: with the default weights the
\* distances are the Euclidean ones, so the call gives what the same builder
\* gives on the coordinates without a metric.
C17_MatrixIsUsedAsDistances ==
    WeightedCall =>
        e_out \in compute_edge_index([e_in.self EXCEPT !.metric = None], e_in.coords)

-----------------------------------------------------------------------------
(* Properties of single calls (checked under SpecCalls) *)

Answered(fn) == f_in.fn = fn /\ f_out # Pending

\* the ordered pairs of distinct nodes that are together in a tetrahedron
TetrahedronPairs(simplices) ==
    {e \in UNION {T \X T : T \in simplices} : e[1] # e[2]}

\* C12: from the tetrahedra of the triangulation, delaunay.build_edges emits,
\* for every pair of nodes that are together in at least one tetrahedron, the
\* edges (i,j) and (j,i) once each, and nothing else (no self-loop).
C12_DelaunayEdgesOfTetrahedra ==
    (Answered("delaunay.build_edges") /\ f_out.lib.simplices # {}) =>
        /\ f_out.ret.err = "none"
        /\ EdgeSet(f_out.ret.edges) = TetrahedronPairs(f_out.lib.simplices)
        /\ NoDuplicate(f_out.ret.edges)

C12_Witness ==
    /\ Answered("delaunay.build_edges")
    /\ \E T1, T2 \in f_out.lib.simplices : T1 # T2 /\ Cardinality(T1 \cap T2) >= 2
    /\ f_out.ret.err = "none"
    /\ Len(f_out.ret.edges) > 0

\* the bounds a cut sets: <<"min", b>> is s >= b, <<"max", b>> is s <= b
SetBounds(cut) ==
    IF ~cut.given THEN {}
    ELSE (IF cut.min.set THEN {<<"min", cut.min.v>>} ELSE {})
         \cup (IF cut.max.set THEN {<<"max", cut.max.v>>} ELSE {})

Holds(bound, v) == IF bound[1] = "min" THEN bound[2] <= v ELSE v <= bound[2]

\* C13: on an event with a time and a charge array, NodeSelection.get_mask
\* returns a mask of the length of the event with mask[i] True exactly when
\* every bound that is set holds for node i (min <= s[i], s[i] <= max); with
\* no bound set the mask is all True.
C13_ThresholdMask ==
    (Answered("get_mask") /\ f_in.selection.type = "fixed") =>
        LET time == f_in.event_group.arr["time"]
            charge == f_in.event_group.arr["charge"]
            on_time == SetBounds(f_in.selection.time_cut)
            on_charge == SetBounds(f_in.selection.charge_cut)
        IN  /\ f_out.ret.err = "none"
            /\ Len(f_out.ret.mask) = Len(time)
            /\ \A i \in 1 .. Len(time) :
                  f_out.ret.mask[i] <=>
                      /\ \A b \in on_time : Holds(b, time[i])
                      /\ \A b \in on_charge : Holds(b, charge[i])
            /\ (on_time = {} /\ on_charge = {}) =>
                  \A i \in 1 .. Len(time) : f_out.ret.mask[i]

C13_Witness ==
    /\ Answered("get_mask")
    /\ f_in.selection.type = "fixed"
    /\ SetBounds(f_in.selection.time_cut) = {<<"min", Threshold>>, <<"max", Threshold>>}
    /\ SetBounds(f_in.selection.charge_cut) = {<<"max", Threshold>>}
    /\ f_out.ret.err = "none"
    /\ \E i, j \in DOMAIN f_out.ret.mask : f_out.ret.mask[i] /\ ~f_out.ret.mask[j]

MasksOf(results) == {r.mask : r \in {x \in results : x.err = "none"}}
ErrorsOf(results) == {r.err : r \in {x \in results : x.err # "none"}}

ReverseSeq(ss) == [j \in 1 .. Len(ss) |-> ss[Len(ss) + 1 - j]]

\* C14: the mask get_combined_mask returns is the elementwise AND of masks that
\* get_mask of each predicate gives on the event itself; it raises only what a
\* predicate raises; and the predicate list in the other order gives the same
\* masks and raises in the same cases.
C14_CombinedMaskIsAnd ==
    Answered("get_combined_mask") =>
        LET ss == f_in.selections
            ev == f_in.event_group
            n == Len(ev.arr["time"])
            each == [j \in DOMAIN ss |-> get_mask(ss[j], ev)]
            swapped == get_combined_mask(ReverseSeq(ss), ev, n)
            straight == get_combined_mask(ss, ev, n)
        IN  /\ f_out.ret.err = "none" =>
                  \E pick \in [DOMAIN ss -> UNION {MasksOf(each[j]) : j \in DOMAIN ss}] :
                      /\ \A j \in DOMAIN ss : pick[j] \in MasksOf(each[j])
                      /\ f_out.ret.mask = [i \in 1 .. n |-> \A j \in DOMAIN ss : pick[j][i]]
            /\ f_out.ret.err # "none" =>
                  \E j \in DOMAIN ss : f_out.ret.err \in ErrorsOf(each[j])
            /\ MasksOf(swapped) = MasksOf(straight)
            /\ (ErrorsOf(swapped) = {}) <=> (ErrorsOf(straight) = {})

C14_Witness ==
    /\ Answered("get_combined_mask")
    /\ Len(f_in.selections) = 2
    /\ f_in.selections[1].type = "fixed" /\ f_in.selections[2].type = "fixed"
    /\ f_out.ret.err = "none"
    /\ LET m1 == NodeSelection_get_mask(f_in.selections[1], f_in.event_group).mask
           m2 == NodeSelection_get_mask(f_in.selections[2], f_in.event_group).mask
       IN  /\ \E i \in DOMAIN m1 : m1[i] /\ ~m2[i]
           /\ \E i \in DOMAIN m1 : m1[i] /\ m2[i] /\ f_out.ret.mask[i]

\* the call is get_mask of a percentile predicate with the Landau fit, on an
\* event whose fit fails
FitFails ==
    /\ Answered("get_mask")
    /\ f_in.selection.type = "percentile"
    /\ f_in.selection.use_landau_fit
    /\ ~f_in.event_group.landau_converges

C23_ApplySelectionFilters ==
    Answered("apply_selection") =>
        f_out.ret =
            OkCoords(BoolIndex(f_in.coords,
                               [i \in DOMAIN f_in.time |->
                                   /\ InCut(f_in.selection.time_cut, f_in.time[i])
                                   /\ InCut(f_in.selection.charge_cut, f_in.charge[i])]))

-----------------------------------------------------------------------------
(* Properties of the Driver (checked under Spec) *)

RunEnded == pc \in {"done", "failed"}

\* the run works with the configuration that wrote the attributes it found
SameConfigAsPreviousRun == pre.attrs.written /\ Provenance(args) = pre.attrs

HadBoth(n) == pre.edges[n].there /\ pre.masks[n].there
Untouched(n) == target.edges[n] = pre.edges[n] /\ target.masks[n] = pre.masks[n]

\* C1: a run with overwrite=False that follows a run of the same configuration
\* on the same input and output store creates, deletes or rewrites no event
\* dataset and no mask dataset.
C1_SecondRunWritesNothing ==
    (run >= 2 /\ ~args.overwrite /\ SameConfigAsPreviousRun) =>
        \A n \in EventIds : Untouched(n)

\* C2 as claimed: after a completed run with overwrite=True, every event that
\* had event_<n> and event_<n>_mask has both entries written by this run.
C2_OverwriteReplacesEveryEvent ==
    (pc = "done" /\ args.overwrite) =>
        \A n \in EventIds : HadBoth(n) =>
            /\ target.edges[n].there /\ target.edges[n].run = run
            /\ target.masks[n].there /\ target.masks[n].run = run

\* C2 as amended: a run with overwrite=True replaces both entries of every
\* event for which it computes an edge index: once the iteration of the event
\* is over, event_<n> is the edge index this run computed and event_<n>_mask is
\* the mask this run computed, or is gone when no selection is configured; an
\* event that is empty after selection, raises, or is not reached keeps both
\* entries as they were before the run.
C2_OverwriteReplacesWrittenEvents ==
    args.overwrite =>
        \A n \in EventIds : HadBoth(n) =>
            /\ outcome[n].what = "written" =>
                  /\ target.edges[n] = Dataset(outcome[n].edge_index, run)
                  /\ target.masks[n] =
                        IF outcome[n].mask.given
                            THEN Dataset(AsUint8(outcome[n].mask.v), run)
                            ELSE Absent
            /\ outcome[n].what \in {"todo", "empty", "raised"} => Untouched(n)

C2_Witness ==
    /\ pc = "done"
    /\ args.overwrite
    /\ \E n, m \in EventIds :
          /\ HadBoth(n) /\ outcome[n].what = "written" /\ outcome[n].mask.given
          /\ HadBoth(m) /\ outcome[m].what = "empty"

\* C3: when processing an event raises, the Driver still processes every
\* subsequent event of the run.
C3_FailuresArePerEvent ==
    \A m \in EventIds :
        (pc = "failed" /\ outcome[m].what = "raised") =>
            \A n \in EventIds : n > m => outcome[n].what # "todo"

\* C4: when the start-of-run validation fails, the output store is exactly as
\* it was before the run.
C4_FailedValidationLeavesStore ==
    (pc = "failed" /\ ~ValidationPasses /\ \A n \in EventIds : outcome[n].what = "todo")
        => target = pre

\* the metric cannot take the number of configured position features
MetricDimensionMismatch(a) ==
    \/ a.metric = "spacetime" /\ Len(a.pos_features) # 4
    \/ /\ a.metric = "weighted_euclidean"
       /\ a.metric_params.weights # <<>>
       /\ Len(a.metric_params.weights) # Len(a.pos_features)

\* C5: a run whose metric does not fit the configured position features ends
\* in an error before any event is processed and before any attribute or
\* dataset is written.
C5_DimensionMismatchFailsFast ==
    (RunEnded /\ MetricDimensionMismatch(args)) =>
        /\ pc = "failed"
        /\ \A n \in EventIds : outcome[n].what = "todo"
        /\ target.attrs = pre.attrs
        /\ \A n \in EventIds : Untouched(n)

AllFalse(mask) == \A i \in DOMAIN mask : ~mask[i]

\* C6: an event whose combined mask is all False gets no dataset written or
\* deleted, raises nothing, and the Driver goes on to the next event.
C6_EmptySelectionIsSkipped ==
    \A n \in EventIds :
        (outcome[n].mask.given /\ AllFalse(outcome[n].mask.v)) =>
            /\ Untouched(n)
            /\ outcome[n].what # "raised"
            /\ event_idx > n

C6_Witness ==
    \E n, m \in EventIds :
        /\ outcome[n].mask.given /\ AllFalse(outcome[n].mask.v)
        /\ Len(outcome[n].mask.v) > 0
        /\ HadBoth(n)
        /\ m > n /\ outcome[m].what = "written"

TruePositions(mask) == SelectSeq([i \in 1 .. Len(mask) |-> i], LAMBDA i : mask[i])

InRange(edges, k) == \A e \in Range(edges) : e[1] \in Nodes(k) /\ e[2] \in Nodes(k)

\* C7: for an event whose mask has k True entries (every node, without
\* selection), the edge index computed and persisted has its values in [0, k),
\* and the i-th filtered coordinate is the coordinate at the i-th True position.
C7_MaskRoundTrip ==
    \A n \in EventIds :
        outcome[n].what \in {"computed", "written"} =>
            LET raw == StackFeatures(data_file[n], args.pos_features)
                mask == IF outcome[n].mask.given THEN outcome[n].mask.v
                        ELSE [i \in 1 .. NumRows(raw) |-> TRUE]
                kept == TruePositions(mask)
            IN  /\ InRange(outcome[n].edge_index, Len(kept))
                /\ target.edges[n].run = run => InRange(target.edges[n].data, Len(kept))
                /\ (pc = "del_edge" /\ event_name = n) =>
                      /\ NumRows(loc.filtered_coords) = Len(kept)
                      /\ \A i \in 1 .. Len(kept) :
                            loc.filtered_coords.rows[i] = raw.rows[kept[i]]

\* both names of a configuration are registered
ValidNames(a) ==
    /\ a.algorithm \in GRAPH_BUILDERS
    /\ a.metric = None \/ a.metric \in METRIC_REGISTRY

Written(n) == outcome[n].what = "written"

\* the bytes read back as booleans
AsBool(data) == [i \in DOMAIN data |-> data[i] # 0]

\* the node count of input event n
NodeCount(n) == Len(data_file[n].arr["x"])

\* C18: for every event the run writes, the store holds event_n_mask exactly
\* when a selection is configured; the mask then is of this run, has one entry
\* per node of the unfiltered event, holds only 0 and 1, and reads back as the
\* combined mask that filtered the event.
C18_MaskIsPersistedFaithfully ==
    \A n \in EventIds :
        Written(n) =>
            /\ target.masks[n].there <=> args.node_selection.given
            /\ args.node_selection.given =>
                  LET data == target.masks[n].data
                  IN  /\ target.masks[n].run = run
                      /\ Len(data) = NodeCount(n)
                      /\ \A i \in DOMAIN data : data[i] \in {0, 1}
                      /\ outcome[n].mask.given
                      /\ AsBool(data) = outcome[n].mask.v
                      /\ OkMask(AsBool(data)) \in
                             get_combined_mask(args.node_selection.selections,
                                               data_file[n], NodeCount(n))

C18_Witness ==
    \E n \in EventIds :
        /\ Written(n)
        /\ args.node_selection.given
        /\ target.masks[n].there
        /\ \E i, j \in DOMAIN target.masks[n].data :
              target.masks[n].data[i] = 1 /\ target.masks[n].data[j] = 0

-----------------------------------------------------------------------------
(* Properties of the order of the loop (checked under SpecOrder) *)

\* the run has read or written event n
Touched(n) == outcome[n].what # "todo"
\* the run has left event n for good: skipped, or its entries persisted
Left(n) == outcome[n].what \in {"exists", "empty", "written"}

\* the run has created an entry of event n
WroteFor(n) ==
    \/ target.edges[n].there /\ target.edges[n].run = run
    \/ target.masks[n].there /\ target.masks[n].run = run

\* C19: the events are taken in strictly ascending order of their numbers, not
\* of their names: when a < b, the run has left event a before it reads or
\* writes anything of event b.
C19_AscendingNumericOrder ==
    /\ \A i, j \in DOMAIN event_names :
          i < j => int(event_names[i]) < int(event_names[j])
    /\ pc \in {"loop", "del_edge", "del_mask", "create_edge", "create_mask", "done"}
          => {int(event_names[i]) : i \in DOMAIN event_names} = DOMAIN data_file
    /\ \A a, b \in DOMAIN data_file :
          (a < b /\ (Touched(b) \/ WroteFor(b))) => Left(a)

C19_Witness ==
    /\ DOMAIN data_file = OrderIds
    /\ pc = "create_edge"
    /\ event_name = 10
    /\ outcome[2].what = "written"
    /\ outcome[0].what = "written"

-----------------------------------------------------------------------------
(* Properties of the Driver with combine_files (checked under SpecCombine) *)

-----------------------------------------------------------------------------
(* Properties of the replace sequence and of the store over runs (checked   *)
(* under Spec)                                                              *)

\* the entries of event n are those of this run: the edge index, and the mask
\* when a selection is applied
NewEntries(n) ==
    /\ target.edges[n].there /\ target.edges[n].run = run
    /\ args.node_selection.given =>
          (target.masks[n].there /\ target.masks[n].run = run)

\* C21: the replacement of an entry is atomic: in every state of a run, an
\* event that had an edge index before the run has either its entries of
\* before the run, untouched, or the new ones.
C21_ReplacementIsAtomic ==
    \A n \in EventIds : pre.edges[n].there => (Untouched(n) \/ NewEntries(n))

-----------------------------------------------------------------------------
(* Properties of process_in_parallel (checked under SpecParallel) *)

\* the entries of slice i of args_list
SliceRange(i) == par.args_list[i].start .. (par.args_list[i].stop - 1)

Min(a, b) == IF a < b THEN a ELSE b

\* C22: the worker slices are non-empty, pairwise disjoint and cover
\* [0, min(nb_datapoints, total_entries)), for every total and every number of
\* workers n_workers >= 1; the results of the slices are concatenated in
\* ascending slice order, whatever order the workers finish in.
C22_SlicesPartitionAndConcatenate ==
    par.pc \in {"map", "done"} =>
        LET slices == DOMAIN par.args_list
        IN  /\ par.n_workers >= 1
            /\ par.total_entries = Min(par.nb_datapoints, par.num_entries)
            /\ \A i \in slices : SliceRange(i) # {}
            /\ \A i, j \in slices : i # j => SliceRange(i) \cap SliceRange(j) = {}
            /\ UNION {SliceRange(i) : i \in slices} = 0 .. (par.total_entries - 1)
            /\ \A i, j \in slices :
                  i < j => par.args_list[i].stop <= par.args_list[j].start
            /\ par.all_data_graphs =
                  Flatten([i \in 1 .. (par.next - 1) |->
                              RootToGraph_process(par.args_list[i].start,
                                                  par.args_list[i].stop)])
            /\ par.pc = "done" =>
                  par.all_data_graphs = [j \in 1 .. par.total_entries |-> j - 1]

C22_Witness ==
    /\ par.pc = "done"
    /\ Len(par.args_list) >= 2
    /\ par.finished[1] # 1
    /\ Cardinality(SliceRange(Len(par.args_list))) < Cardinality(SliceRange(1))

\* C29: every worker constructs its RootToGraph with the identifiers of its
\* own thread, whatever the interleaving of the workers.
C29_WorkerUsesOwnIds ==
    \A i \in Tasks :
        par.task[i].pc \in {"built", "done"} =>
            par.task[i].ids = ThreadIds(par.task[i].thread)

-----------------------------------------------------------------------------
(* Properties of the store over runs, continued (checked under Spec) *)

\* the masks get_combined_mask can give for input event n in this run
MasksFor(n) ==
    MasksOf(get_combined_mask(args.node_selection.selections, data_file[n],
                              NodeCount(n)))

\* the iteration of event_name stands between the compose call and the end of
\* the writes
Persisting == pc \in {"del_edge", "del_mask", "create_edge", "create_mask"}

\* C24: the mask read from SelectionCompose.last_mask after the compose call,
\* and persisted under event_n_mask, is the mask computed for event n in this
\* iteration, never that of an event processed or skipped before.
C24_LastMaskIsCurrent ==
    /\ (Persisting /\ args.node_selection.given) =>
          /\ loc.selection_mask.given
          /\ loc.selection_mask = last_mask
          /\ loc.selection_mask.v \in MasksFor(event_name)
          /\ loc.filtered_coords =
                BoolIndex(StackFeatures(data_file[event_name], args.pos_features),
                          loc.selection_mask.v)
    /\ \A n \in EventIds :
          (Written(n) /\ args.node_selection.given) =>
              /\ target.masks[n].there
              /\ AsBool(target.masks[n].data) \in MasksFor(n)
              /\ AsBool(target.masks[n].data) = outcome[n].mask.v

C24_Witness ==
    /\ pc = "create_mask"
    /\ event_name = 1
    /\ outcome[0].what = "empty"
    /\ outcome[0].mask.given
    /\ outcome[0].mask.v # loc.selection_mask.v
    /\ last_mask = loc.selection_mask

\* C25: the top-level attributes describe the configuration that produced
\* every edge index of the store: an edge index of this run stands under the
\* attributes of this run, and as long as an edge index of an earlier run is
\* there, the attributes are those it stood under before this run.
C25_ProvenanceDescribesDatasets ==
    \A n \in EventIds :
        target.edges[n].there =>
            target.attrs = IF target.edges[n].run = run THEN Provenance(args)
                           ELSE pre.attrs

\* the edge indices compute_edge_index can give for event n under mask
BuiltWith(n, mask) ==
    {r.edges : r \in {x \in compute_edge_index(edge_builder,
                            BoolIndex(StackFeatures(data_file[n], args.pos_features),
                                      mask)) : x.err = "none"}}

\* C26: with a separate output file, after every run of a sequence started on
\* an empty store, a mask entry is there only with the edge index of the same
\* event, written by the same run, and it is the mask that filtered the
\* coordinates from which that edge index was built.
C26_NoOrphanOrStaleMask ==
    RunEnded =>
        \A n \in EventIds :
            target.masks[n].there =>
                /\ target.edges[n].there
                /\ target.edges[n].run = target.masks[n].run
                /\ target.masks[n].run = run =>
                      /\ target.masks[n].data = AsUint8(outcome[n].mask.v)
                      /\ target.edges[n].data = outcome[n].edge_index
                      /\ outcome[n].edge_index \in BuiltWith(n, outcome[n].mask.v)
                /\ target.masks[n].run < run => Untouched(n)

C26_Witness ==
    /\ pc = "done"
    /\ run = 2
    /\ args.overwrite
    /\ \E n, m \in EventIds :
          /\ pre.masks[n].there /\ target.masks[n].there /\ target.masks[n].run = 2
          /\ pre.masks[m].there /\ target.masks[m] = pre.masks[m]
             /\ outcome[m].what = "empty"

\* the step changes an entry of event n
StepTouches(n) ==
    \/ target.edges[n]' # target.edges[n]
    \/ target.masks[n]' # target.masks[n]

\* C27: the entries of an event are deleted only after its selection and its
\* edge computation have succeeded: every step that changes an entry belongs
\* to the writes of the event whose edge index has just been computed, so a
\* step in which computing the mask or the edge index raises changes no entry
\* of any event.
C27_DeleteOnlyAfterCompute ==
    [][\A n \in EventIds :
          StepTouches(n) =>
              /\ Persisting
              /\ n = event_name
              /\ outcome[n].what = "computed"]_vars

C27_Witness ==
    /\ pc = "failed"
    /\ args.overwrite
    /\ \E n, m \in EventIds :
          /\ outcome[n].what = "raised" /\ pre.edges[n].there /\ Untouched(n)
          /\ outcome[m].what = "written" /\ pre.edges[m].there

\* the rows of event n that the mask recorded for it keeps
KeptRows(n) ==
    IF outcome[n].mask.given
        THEN NumRows(BoolIndex(StackFeatures(data_file[n], args.pos_features),
                               outcome[n].mask.v))
        ELSE NumRows(StackFeatures(data_file[n], args.pos_features))

-----------------------------------------------------------------------------
(* Properties of check_data_requirements (checked under SpecCalls) *)

\* get_mask finds every array it reads in the event group
Resolves(selection, event_group) ==
    \A m \in get_mask(selection, event_group) : m.err # "KeyError"

\* the event group holds the signal of every cut the predicate is configured
\* with: time for a percentile predicate or a time cut, charge for a charge cut
HasConfiguredSignals(selection, event_group) ==
    LET has_time == Has(event_group, "pmt_time") \/ Has(event_group, "time")
        has_charge == Has(event_group, "pmt_charge") \/ Has(event_group, "charge")
    IN  IF selection.type = "percentile" THEN has_time
        ELSE /\ selection.time_cut.given => has_time
             /\ selection.charge_cut.given => has_charge

\* C30: for both predicates check_data_requirements is True exactly when
\* get_mask resolves every signal it reads, and it asks only for the signals
\* of the cuts that are configured: a NodeSelection with only a time cut is
\* accepted on an event group without a charge signal.
C30_RequirementsFollowConfiguredCuts ==
    Answered("check_data_requirements") =>
        /\ f_out.ret <=> Resolves(f_in.selection, f_in.event_group)
        /\ HasConfiguredSignals(f_in.selection, f_in.event_group) => f_out.ret

=============================================================================
